---- MODULE Spec2Model ----
(***************************************************************************)
(* Model of src/just_prompt/atoms/llm_providers/gemini.py: the Gemini      *)
(* provider of just-prompt.                                                *)
(*                                                                         *)
(* A Python string is a sequence of tokens.  A token is either one         *)
(* character of a model identifier's tail (":", a digit, "k", ...) or a    *)
(* whole model name ("gemini-2.5-pro"), which only ever stands first.  No  *)
(* name is the concatenation of another name and tail characters, so two   *)
(* token sequences are equal exactly when the strings they spell are.      *)
(* "LF" is the newline character and "U0664" is ARABIC-INDIC DIGIT FOUR,   *)
(* a non-ASCII character of Unicode category Nd.                           *)
(***************************************************************************)
EXTENDS Integers, Sequences, FiniteSets, TLC

VARIABLES
    pc,               \* "call" before the operation runs, then "parsed" / "prompted" / "listed"
    model,            \* the model argument of parse_thinking_suffix / prompt
    fmt,              \* the values the caller formatted into model (f"{m}:{n}" or f"{m}:{n}k")
    base_model,       \* first component returned by parse_thinking_suffix
    thinking_budget,  \* second component returned by parse_thinking_suffix
    text,             \* the text argument of prompt
    requests,         \* the generate_content requests sent to the remote client, in order
    response,         \* what prompt gave its caller: "text" or "ValueError"
    remote,           \* how the remote listing behaves during list_models
    listed            \* what list_models gave its caller: [raised, models]

vars == <<pc, model, fmt, base_model, thinking_budget, text, requests, response, remote, listed>>

----------------------------------------------------------------------------
(* Bounds of the model *)

\* longest tail (the ":" and what follows the name) of an arbitrary identifier
MaxLen == 4
\* longest tail of an identifier handed to prompt
MaxPromptLen == 3
\* largest n formatted into an identifier
MaxN == 24600
\* most models the remote listing yields
MaxModels == 3

----------------------------------------------------------------------------
(* Strings *)

AsciiDigits == {"0", "1", "2", "3", "4", "5", "6", "7", "8", "9"}
UnicodeDigits == {"U0664"}
Whitespace == {"LF"}

\* the tail characters arbitrary identifiers are drawn from
Chars == {":", "0", "9", "k", "a", "-", ".", "LF", "U0664"}

SeqsUpTo(S, n) == UNION {[1..k -> S] : k \in 0..n}

RECURSIVE Str(_)
\* f"{n}" for n >= 0: the decimal digits of n, no leading zero
Str(n) ==
    LET d == <<"0", "1", "2", "3", "4", "5", "6", "7", "8", "9">>[(n % 10) + 1]
    IN  IF n < 10 THEN <<d>> ELSE Str(n \div 10) \o <<d>>

----------------------------------------------------------------------------
(* parse_thinking_suffix *)

THINKING_ENABLED_MODELS ==
    { <<"gemini-2.0-flash-thinking">>,
      <<"gemini-2.5-flash">>,
      <<"gemini-2.5-flash-lite">>,
      <<"gemini-2.5-pro">>,
      <<"gemini-2.5-flash-preview-04-17">> }

\* ":" in model
HasColon(s) == \E i \in 1..Len(s) : s[i] = ":"

FirstColon(s) == CHOOSE i \in 1..Len(s) : s[i] = ":" /\ \A j \in 1..(i - 1) : s[j] # ":"

\* model.split(":", 1), for a model that has a colon
SplitFirst(s) ==
    [base   |-> SubSeq(s, 1, FirstColon(s) - 1),
     suffix |-> SubSeq(s, FirstColon(s) + 1, Len(s))]

\* \d of a str pattern: any Unicode decimal digit
IsDigit(c) == c \in AsciiDigits \cup UnicodeDigits

DigitValue(c) ==
    CASE c = "0" -> 0 [] c = "1" -> 1 [] c = "2" -> 2 [] c = "3" -> 3 [] c = "4" -> 4
      [] c = "5" -> 5 [] c = "6" -> 6 [] c = "7" -> 7 [] c = "8" -> 8 [] c = "9" -> 9
      [] c = "U0664" -> 4

\* re.match(r'^\d+k?$', suffix): without re.MULTILINE, $ matches at the end of
\* the string and also just before a newline that ends the string
ReMatch(s) ==
    \E d \in 1..Len(s) :
        /\ \A i \in 1..d : IsDigit(s[i])
        /\ SubSeq(s, d + 1, Len(s)) \in {<<>>, <<"k">>, <<"LF">>, <<"k", "LF">>}

\* suffix.endswith('k')
EndsWithK(s) == Len(s) > 0 /\ s[Len(s)] = "k"

\* suffix[:-1]
DropLast(s) == SubSeq(s, 1, Len(s) - 1)

RECURSIVE Strip(_)
\* int() ignores leading and trailing whitespace
Strip(s) ==
    IF Len(s) > 0 /\ s[1] \in Whitespace THEN Strip(Tail(s))
    ELSE IF Len(s) > 0 /\ s[Len(s)] \in Whitespace THEN Strip(DropLast(s))
    ELSE s

RECURSIVE DigitsValue(_)
DigitsValue(s) ==
    IF Len(s) = 0 THEN 0 ELSE 10 * DigitsValue(DropLast(s)) + DigitValue(s[Len(s)])

\* the digits of an int() literal: what is left of the stripped string after an optional sign
IntDigits(s) ==
    LET t == Strip(s)
    IN  IF Len(t) > 0 /\ t[1] = "-" THEN Tail(t) ELSE t

\* int(s) returns (otherwise it raises ValueError)
IntOk(s) == Len(IntDigits(s)) > 0 /\ \A i \in 1..Len(IntDigits(s)) : IsDigit(IntDigits(s)[i])

\* int(s), when it returns
IntVal(s) ==
    IF Len(Strip(s)) > 0 /\ Strip(s)[1] = "-"
    THEN 0 - DigitsValue(IntDigits(s))
    ELSE DigitsValue(IntDigits(s))

\* a 'k' taken as a decimal thousand
KBudgetDecimal(suffix) == IntVal(DropLast(suffix)) * 1000

\* int(suffix[:-1]) * 1024
KBudget(suffix) == IntVal(DropLast(suffix)) * 1024

\* the heuristic left out: every bare number taken literally
SmallNumberLiteral(n) == n

\* the heuristic's boundary off by one: 100 multiplied too
SmallNumberInclusive(n) == IF n <= 100 THEN n * 1024 ELSE n

\* thinking_budget = int(suffix); if thinking_budget < 100: thinking_budget *= 1024
SmallNumber(n) == IF n < 100 THEN n * 1024 ELSE n

\* the special handling of gemini-2.5-pro left out
ProFloorMissing(base, budget) == budget

\* thinking cannot be turned off for gemini-2.5-pro
ProFloor(base, budget) ==
    IF base = <<"gemini-2.5-pro">> /\ budget = 0 THEN 1024 ELSE budget

\* the upper adjustment left out
ClampBudgetLowOnly(budget) == IF budget < 0 THEN 0 ELSE budget

\* adjust values outside the range
ClampBudget(budget) ==
    IF budget < 0 THEN 0
    ELSE IF budget > 24576 THEN 24576
    ELSE budget

\* the eligibility check left out
UnsupportedNever(base) == FALSE

\* base_model not in THINKING_ENABLED_MODELS
Unsupported(base) == base \notin THINKING_ENABLED_MODELS

Ret(base, budget) == [base_model |-> base, thinking_budget |-> budget]

parse_thinking_suffix(m) ==
    IF ~HasColon(m) THEN Ret(m, 0)
    ELSE
      LET base   == SplitFirst(m).base
          suffix == SplitFirst(m).suffix
      IN  IF Unsupported(base) THEN Ret(base, 0)
          ELSE IF suffix = <<>> THEN Ret(base, 0)
          ELSE IF ReMatch(suffix) THEN
              IF EndsWithK(suffix) THEN
                  IF IntOk(DropLast(suffix))
                  THEN Ret(base, ClampBudget(ProFloor(base, KBudget(suffix))))
                  ELSE Ret(base, 0)
              ELSE
                  IF IntOk(suffix)
                  THEN Ret(base, ClampBudget(ProFloor(base, SmallNumber(IntVal(suffix)))))
                  ELSE Ret(base, 0)
          ELSE Ret(base, 0)

----------------------------------------------------------------------------
(* States and actions *)

NoFmt == [m |-> <<>>, n |-> 0, k |-> FALSE]
NoRemote == [fail |-> "none", at |-> 0, items |-> <<>>]
NoListed == [raised |-> FALSE, models |-> <<>>]

\* what an identifier may start with: an eligible name, another name, a name
\* differing from an eligible one in case only, or nothing
Heads ==
    THINKING_ENABLED_MODELS
        \cup { <<"gemini-1.5-pro">>, <<"Gemini-2.5-Pro">>, <<>> }

Idle ==
    /\ pc = "call"
    /\ base_model = <<>>
    /\ thinking_budget = 0
    /\ text = ""
    /\ requests = <<>>
    /\ response = "none"
    /\ listed = NoListed

\* an arbitrary identifier
Init ==
    /\ Idle
    /\ model \in { h \o t : h \in Heads, t \in SeqsUpTo(Chars, MaxLen) }
    /\ fmt = NoFmt
    /\ remote = NoRemote

Parse ==
    /\ pc = "call"
    /\ pc' = "parsed"
    /\ base_model' = parse_thinking_suffix(model).base_model
    /\ thinking_budget' = parse_thinking_suffix(model).thinking_budget
    /\ UNCHANGED <<model, fmt, text, requests, response, remote, listed>>

Next == Parse

Spec == Init /\ [][Next]_vars

\* an identifier the caller formats from an eligible name and a number:
\* f"{m}:{n}" or f"{m}:{n}k"
Format(f) == f.m \o <<":">> \o Str(f.n) \o (IF f.k THEN <<"k">> ELSE <<>>)

InitNum ==
    /\ Idle
    /\ fmt \in [m : THINKING_ENABLED_MODELS, n : 0..MaxN, k : BOOLEAN]
    /\ model = Format(fmt)
    /\ remote = NoRemote

SpecNum == InitNum /\ [][Next]_vars

----------------------------------------------------------------------------
(* prompt and prompt_with_thinking *)

Texts == {"hello", ""}

\* client.models.generate_content(model=model, contents=text,
\*     config=GenerateContentConfig(thinking_config=ThinkingConfig(thinking_budget=...)))
prompt_with_thinking(t, m, budget) ==
    [model |-> m, contents |-> t, thinking_config |-> <<budget>>]

\* client.models.generate_content(model=base_model, contents=text)
PlainRequest(t, m) ==
    [model |-> m, contents |-> t, thinking_config |-> <<>>]

\* the thinking variant chosen whatever the budget
UseThinkingAlways(budget) == budget >= 0

\* if thinking_budget > 0
UseThinking(budget) == budget > 0

\* the request prompt(text, model) sends
PromptRequest(t, m) ==
    LET parsed == parse_thinking_suffix(m)
    IN  IF UseThinking(parsed.thinking_budget)
        THEN prompt_with_thinking(t, parsed.base_model, parsed.thinking_budget)
        ELSE PlainRequest(t, parsed.base_model)

InitPrompt ==
    /\ Idle
    /\ model \in { h \o t : h \in Heads, t \in SeqsUpTo(Chars, MaxPromptLen) }
    /\ fmt = NoFmt
    /\ remote = NoRemote

\* prompt(text, model); the remote call returns a response or raises, and what
\* it raises is raised again as ValueError
Prompt ==
    /\ pc = "call"
    /\ pc' = "prompted"
    /\ \E t \in Texts, ok \in BOOLEAN :
        /\ text' = t
        /\ requests' = Append(requests, PromptRequest(t, model))
        /\ response' = IF ok THEN "text" ELSE "ValueError"
    /\ base_model' = parse_thinking_suffix(model).base_model
    /\ thinking_budget' = parse_thinking_suffix(model).thinking_budget
    /\ UNCHANGED <<model, fmt, remote, listed>>

NextPrompt == Prompt

SpecPrompt == InitPrompt /\ [][NextPrompt]_vars

----------------------------------------------------------------------------
(* list_models *)

\* the hardcoded list of known models
KnownModels ==
    << <<"gemini-2.5-pro">>,
       <<"gemini-2.5-flash">>,
       <<"gemini-2.5-flash-lite">>,
       <<"gemini-2.5-flash-preview-04-17">>,
       <<"gemini-2.0-flash">>,
       <<"gemini-2.0-flash-thinking">>,
       <<"gemini-1.5-pro">>,
       <<"gemini-1.5-pro-latest">>,
       <<"gemini-1.5-flash">>,
       <<"gemini-1.5-flash-latest">>,
       <<"gemini-1.0-pro">> >>

\* names the remote listing may give: a name is a sequence of tokens, "models/"
\* being one token
RemoteNames ==
    { <<"models/", "gemini-1.5-pro">>,
      <<"gemini-1.5-pro">>,
      <<"models/", "embedding-001">>,
      <<"publishers/google/", "models/", "gemini-1.5-pro">> }

RemoteMethods ==
    { {"generateContent"}, {"embedContent"}, {"generateContent", "countTokens"} }

RemoteItems == [name : RemoteNames, methods : RemoteMethods]

\* the remote listing: the models it holds and the step at which it fails.
\*   "call"    client.list_models() raises
\*   "iter"    the iteration raises after yielding `at` models
\*   "methods" reading supported_generation_methods of model `at` raises
\*   "name"    reading name of model `at` raises
Remotes ==
    { r \in [fail : {"none", "call", "iter", "methods", "name"},
             at : 0..MaxModels,
             items : SeqsUpTo(RemoteItems, MaxModels)] :
        CASE r.fail \in {"none", "call"} -> r.at = 0
          [] r.fail = "iter" -> r.at <= Len(r.items)
          [] OTHER -> r.at >= 1 /\ r.at <= Len(r.items) }

Raised == [raised |-> TRUE, models |-> <<>>]

RECURSIVE Collect(_, _, _)
\* for m in available_models:
\*     if "generateContent" in m.supported_generation_methods: models.append(m.name)
\* from model i on, acc being the names appended so far
Collect(r, i, acc) ==
    IF r.fail = "iter" /\ r.at = i - 1 THEN Raised
    ELSE IF i > Len(r.items) THEN [raised |-> FALSE, models |-> acc]
    ELSE IF r.fail = "methods" /\ r.at = i THEN Raised
    ELSE IF "generateContent" \in r.items[i].methods THEN
        IF r.fail = "name" /\ r.at = i THEN Raised
        ELSE Collect(r, i + 1, Append(acc, r.items[i].name))
    ELSE Collect(r, i + 1, acc)

\* model.replace("models/", ""): every occurrence removed
ReplaceModels(name) == SelectSeq(name, LAMBDA tok : tok # "models/")

\* formatted_models = [model.replace("models/", "") for model in models]
Formatted(models) == [j \in 1..Len(models) |-> ReplaceModels(models[j])]

\* the body of the try block
TryList(r) ==
    IF r.fail = "call" THEN Raised
    ELSE LET got == Collect(r, 1, <<>>)
         IN  IF got.raised THEN Raised
             ELSE [raised |-> FALSE, models |-> Formatted(got.models)]

\* a handler that lets the failure through
ExceptNothing(result) == result

\* except Exception: return the hardcoded list
ExceptException(result) ==
    IF result.raised THEN [raised |-> FALSE, models |-> KnownModels] ELSE result

list_models(r) == ExceptException(TryList(r))

InitList ==
    /\ Idle
    /\ model = <<>>
    /\ fmt = NoFmt
    /\ remote \in Remotes

ListModels ==
    /\ pc = "call"
    /\ pc' = "listed"
    /\ listed' = list_models(remote)
    /\ UNCHANGED <<model, fmt, base_model, thinking_budget, text, requests, response, remote>>

NextList == ListModels

SpecList == InitList /\ [][NextList]_vars

----------------------------------------------------------------------------
(* Properties of parse_thinking_suffix on arbitrary identifiers (Spec) *)

Pro == <<"gemini-2.5-pro">>

\* the directive of an identifier that has one: the text after its first colon
Directive(s) == SubSeq(s, FirstColon(s) + 1, Len(s))

\* one or more decimal digits, optionally followed by a single literal k
WellFormed(s) ==
    \E d \in 1..Len(s) :
        /\ \A i \in 1..d : s[i] \in AsciiDigits \cup UnicodeDigits
        /\ \/ Len(s) = d
           \/ Len(s) = d + 1 /\ s[d + 1] = "k"

C2_Clamp ==
    pc = "parsed" => (thinking_budget >= 0 /\ thinking_budget <= 24576)

C2_Witness ==
    /\ pc = "parsed"
    /\ model = <<"gemini-2.5-flash", ":", "9", "9">>
    /\ thinking_budget = 24576

\* C5, as stated: for every way of reading the identifier as m ":" suffix with
\* m not in THINKING_ENABLED_MODELS, the result is (m, 0).
C5_AnyIneligiblePrefix ==
    pc = "parsed" =>
        \A i \in 1..Len(model) :
            (model[i] = ":" /\ SubSeq(model, 1, i - 1) \notin THINKING_ENABLED_MODELS)
                => (base_model = SubSeq(model, 1, i - 1) /\ thinking_budget = 0)

\* C5, amended: for every such m the budget is 0, and the base model returned
\* is m when m itself holds no colon.
C5_Ineligible ==
    pc = "parsed" =>
        \A i \in 1..Len(model) :
            (model[i] = ":" /\ SubSeq(model, 1, i - 1) \notin THINKING_ENABLED_MODELS)
                => /\ thinking_budget = 0
                   /\ ~HasColon(SubSeq(model, 1, i - 1)) => base_model = SubSeq(model, 1, i - 1)

C5_Witness ==
    /\ pc = "parsed"
    /\ model = <<"gemini-1.5-pro", ":", "9", "k">>
    /\ base_model = <<"gemini-1.5-pro">>
    /\ thinking_budget = 0

\* C6: for an eligible base model and a directive that is not well-formed
\* (anything but digits optionally followed by one k), the result is
\* (base_model, 0).
C6_MalformedGivesZero ==
    (/\ pc = "parsed"
     /\ HasColon(model)
     /\ SubSeq(model, 1, FirstColon(model) - 1) \in THINKING_ENABLED_MODELS
     /\ ~WellFormed(Directive(model)))
        => (/\ base_model = SubSeq(model, 1, FirstColon(model) - 1)
            /\ thinking_budget = 0)

----------------------------------------------------------------------------
(* Properties of parse_thinking_suffix on formatted identifiers (SpecNum) *)

\* C3, as stated: "m:n" with n in 0..99 gives n * 1024.
C3_TimesKibi ==
    (pc = "parsed" /\ ~fmt.k /\ fmt.n \in 0..99) => thinking_budget = fmt.n * 1024

\* C3, amended: "m:n" with n in 0..99 gives n * 1024 cut at 24576 (n * 1024
\* for n <= 24, 24576 for n >= 25), except that gemini-2.5-pro with n = 0
\* gives 1024.
C3_TimesKibiClamped ==
    (pc = "parsed" /\ ~fmt.k /\ fmt.n \in 0..99) =>
        thinking_budget =
            IF fmt.m = Pro /\ fmt.n = 0 THEN 1024
            ELSE IF fmt.n * 1024 > 24576 THEN 24576
            ELSE fmt.n * 1024

C3_Witness ==
    /\ pc = "parsed"
    /\ fmt = [m |-> <<"gemini-2.5-flash-lite">>, n |-> 24, k |-> FALSE]
    /\ thinking_budget = 24576

\* C4, as stated: "m:nk" with n * 1024 in 0..24576 gives n * 1024.
C4_KSuffix ==
    (pc = "parsed" /\ fmt.k /\ fmt.n * 1024 \in 0..24576) => thinking_budget = fmt.n * 1024

\* C4, amended: "m:nk" with n * 1024 in 0..24576 gives n * 1024, except that
\* gemini-2.5-pro with n = 0 gives 1024.
C4_KSuffixFloored ==
    (pc = "parsed" /\ fmt.k /\ fmt.n * 1024 \in 0..24576) =>
        thinking_budget = IF fmt.m = Pro /\ fmt.n = 0 THEN 1024 ELSE fmt.n * 1024

C4_Witness ==
    /\ pc = "parsed"
    /\ fmt = [m |-> <<"gemini-2.5-flash">>, n |-> 24, k |-> TRUE]
    /\ thinking_budget = 24576

\* C7: "m:n" with n in 100..24576 gives n itself; 100 is taken literally.
C7_Literal ==
    (pc = "parsed" /\ ~fmt.k /\ fmt.n \in 100..24576) => thinking_budget = fmt.n

C7_Witness ==
    /\ pc = "parsed"
    /\ fmt = [m |-> <<"gemini-2.0-flash-thinking">>, n |-> 100, k |-> FALSE]
    /\ thinking_budget = 100

----------------------------------------------------------------------------
(* Properties of prompt (SpecPrompt) *)

\* C8: prompt sends exactly one request: the request with a thinking budget,
\* carrying the parsed base model and the parsed budget, exactly when the
\* parsed budget is above 0, and the plain request with the parsed base model
\* otherwise; the identifier with its ':' directive is never what is sent.
C8_OneRequest ==
    pc = "prompted" =>
        /\ Len(requests) = 1
        /\ requests[1].model = base_model
        /\ ~HasColon(requests[1].model)
        /\ requests[1].contents = text
        /\ thinking_budget > 0 => requests[1].thinking_config = <<thinking_budget>>
        /\ thinking_budget <= 0 => requests[1].thinking_config = <<>>

C8_Witness ==
    /\ pc = "prompted"
    /\ model = <<"gemini-2.5-flash", ":", "9", "k">>
    /\ requests = << [model |-> <<"gemini-2.5-flash">>, contents |-> "hello",
                      thinking_config |-> <<9216>>] >>

----------------------------------------------------------------------------
(* Properties of list_models (SpecList) *)

\* the remote listing fails at a step list_models reaches
RemoteFails ==
    \/ remote.fail \in {"call", "iter", "methods"}
    \/ remote.fail = "name" /\ "generateContent" \in remote.items[remote.at].methods

\* C9: whenever the remote listing fails (the call, the iteration, or the
\* reading of a model's attributes), list_models raises nothing and returns
\* the hardcoded list, which is not empty; and list_models never raises.
C9_Fallback ==
    pc = "listed" =>
        /\ ~listed.raised
        /\ RemoteFails => (listed.models = KnownModels /\ Len(listed.models) > 0)

C9_Witness ==
    /\ pc = "listed"
    /\ remote.fail = "name"
    /\ remote.at = 2
    /\ Len(remote.items) = 3
    /\ "generateContent" \in remote.items[1].methods
    /\ "generateContent" \in remote.items[2].methods
    /\ listed = [raised |-> FALSE, models |-> KnownModels]

\* the name with its leading "models/" removed, if it has one
StripLeadingPrefix(name) ==
    IF Len(name) > 0 /\ name[1] = "models/" THEN Tail(name) ELSE name

\* the models of the listing that support content generation, in order
Generating(items) == SelectSeq(items, LAMBDA it : "generateContent" \in it.methods)

\* C10: when the remote listing succeeds, list_models returns, in the remote
\* order, the names of the models that support content generation, each with
\* only its leading "models/" removed and the rest unchanged.
C10_LeadingPrefixOnly ==
    (pc = "listed" /\ ~RemoteFails) =>
        listed.models =
            [j \in 1..Len(Generating(remote.items)) |->
                StripLeadingPrefix(Generating(remote.items)[j].name)]

====
